---------------------------- MODULE Spec2Model ----------------------------
(***************************************************************************)
(* go-profile: an in-memory user store (package api) behind five HTTP      *)
(* handlers.  The store is a Go map shared by every request goroutine and  *)
(* guarded by no lock, so each map access of a handler is a step of its    *)
(* own and steps of different requests interleave.                         *)
(*                                                                         *)
(* Identifiers are scaled down from 16 bytes to two hexadecimal digits;    *)
(* the canonical string form "xxxxxxxx-xxxx-..." becomes <<d1, "-", d2>>.  *)
(* Strings that are parsed or compared character by character are          *)
(* sequences of one-character strings.                                     *)
(***************************************************************************)
EXTENDS Naturals, Sequences, FiniteSets

VARIABLES
    data,      \* application.data: the map[ID]User
    pc,        \* per request goroutine: where its handler stands
    loc,       \* per request goroutine: the request and the handler's locals
    last,      \* the response written by the step just taken (NoResponse otherwise)
    issued,    \* history: the identifiers Insert has returned so far
    expect,    \* history: per identifier, the record last acknowledged to a caller
    crashed    \* the runtime stopped the process (fatal concurrent map access)

vars == <<data, pc, loc, last, issued, expect, crashed>>

---------------------------------------------------------------------------
(* Bounds of the model *)

\* Records the store may hold before further create requests are refused.
MaxStore == 2

\* The request goroutines that may be in flight together.
Procs == {"r1", "r2"}

---------------------------------------------------------------------------
(* Identifiers and their string forms *)

LowerHex == {"a", "b"}

\* type ID uuid.UUID: the values uuid.New() can return.
IDs == {<<x, y>> : x \in LowerHex, y \in LowerHex}

ToUpper(c) == CASE c = "a" -> "A" [] c = "b" -> "B" [] OTHER -> c

\* xtob: the value of one hexadecimal digit, either case; "" for any other byte.
HexValue(c) == CASE c \in {"a", "A"} -> "a" [] c \in {"b", "B"} -> "b" [] OTHER -> ""

\* The canonical lower-case dashed form.
String(id) == <<id[1], "-", id[2]>>

ParseError == <<>>

IsUrnPrefix(c) == c \in {"urn:uuid:", "URN:UUID:"}

\* The dashed form: a dash between the digit groups, every digit hexadecimal.
ParseDashed(s) ==
    IF s[2] # "-" THEN ParseError
    ELSE IF HexValue(s[1]) = "" \/ HexValue(s[3]) = "" THEN ParseError
    ELSE <<HexValue(s[1]), HexValue(s[3])>>

\* uuid.Parse: by length the dashed form, the urn form, the braced form (its
\* first byte dropped, its last ignored) or the undashed form.
Parse(s) ==
    CASE Len(s) = 3 -> ParseDashed(s)
      [] Len(s) = 4 -> IF IsUrnPrefix(s[1]) THEN ParseDashed(SubSeq(s, 2, 4))
                       ELSE ParseError
      [] Len(s) = 5 -> ParseDashed(SubSeq(s, 2, 4))
      [] Len(s) = 2 -> IF HexValue(s[1]) = "" \/ HexValue(s[2]) = "" THEN ParseError
                       ELSE <<HexValue(s[1]), HexValue(s[2])>>
      [] OTHER -> ParseError

\* The spellings of one identifier a path segment may carry.
Spellings(id) ==
    { String(id),
      <<ToUpper(id[1]), "-", ToUpper(id[2])>>,
      <<"urn:uuid:">> \o String(id),
      <<"{">> \o String(id) \o <<"}">>,
      <<id[1], id[2]>> }

\* Path segments no identifier is spelled by.
Malformed == { <<"g", "-", "a">>, <<"a">>, <<"a", "a", "b">> }

RawIDs == UNION {Spellings(id) : id \in IDs} \cup Malformed

---------------------------------------------------------------------------
(* Users and request bodies *)

Fields == {"first_name", "last_name", "biography"}

\* The zero value of type User.
ZeroUser == [first_name |-> "", last_name |-> "", biography |-> ""]
Ada == [first_name |-> "Ada", last_name |-> "Lovelace", biography |-> "mathematician"]
Grace == [first_name |-> "Grace", last_name |-> "Hopper", biography |-> "admiral"]

Users == {ZeroUser, Ada, Grace}

\* A request body: text that is a JSON object with some of the fields, or is not.
Body(valid, obj) == [valid |-> valid, obj |-> obj]
NoBody == Body(FALSE, <<>>)
FullBody(u) == Body(TRUE, [f \in Fields |-> u[f]])

Bodies == { NoBody,
            Body(TRUE, <<>>),
            FullBody(Ada),
            FullBody(Grace) }

\* json.Decoder.Decode into a zero User: a field the object lacks stays "".
DecodeOK(b) == b.valid
Decode(b) == [f \in Fields |-> IF f \in DOMAIN b.obj THEN b.obj[f] ELSE ""]

---------------------------------------------------------------------------
(* Requests and responses *)

\* A request: its method, its route, the {id} segment of its path, its body.
Request(method, route, raw, body) ==
    [method |-> method, route |-> route, raw |-> raw, body |-> body]
NoRequest == Request("", "", <<>>, NoBody)

\* type UserResponse
UserResponse(idString, user) ==
    [id |-> idString, first_name |-> user.first_name,
     last_name |-> user.last_name, biography |-> user.biography]

\* The Data of a Response: nil, one UserResponse, or a slice of them.
NilData == [shape |-> "nil", items |-> <<>>]
ObjectData(ur) == [shape |-> "object", items |-> <<ur>>]
ArrayData(urs) == [shape |-> "array", items |-> urs]

\* type Response
Response(error, payload) == [Error |-> error, Data |-> payload]

MsgBadBody == "Please provide FirstName LastName and bio for the user"
MsgNotFound == "The user with the specified ID does not exist."
MsgBadID == "UUID not valid"

\* json.Marshal of a Response: both keys are omitempty.
Marshal(resp) ==
    [keys |-> (IF resp.Error # "" THEN {"error"} ELSE {})
                \cup (IF resp.Data.shape # "nil" THEN {"data"} ELSE {}),
     error |-> resp.Error,
     data |-> resp.Data]

EmptyJSON == Marshal(Response("", NilData))

\* sendJSON: the JSON content type, the status, the marshalled envelope.  A 204
\* carries no body: the write is refused and only logged.
sendJSON(resp, status) ==
    [status |-> status, ctype |-> "application/json",
     body |-> IF status = 204 THEN "none" ELSE "json",
     json |-> IF status = 204 THEN EmptyJSON ELSE Marshal(resp),
     text |-> ""]

\* http.Error: a plain-text body.
httpError(msg, status) ==
    [status |-> status, ctype |-> "text/plain", body |-> "text",
     json |-> EmptyJSON, text |-> msg]

NoResponse == [proc |-> "", req |-> NoRequest, resp |-> httpError("", 0)]
Responded(p, req, resp) == [proc |-> p, req |-> req, resp |-> resp]

---------------------------------------------------------------------------
(* The map *)

Has(d, id) == id \in DOMAIN d
\* Mutant: the assignment overwrites every record of the map.
MapAssignClobber(d, id, user) == [k \in DOMAIN d \cup {id} |-> user]
MapAssign(d, id, user) == [k \in DOMAIN d \cup {id} |-> IF k = id THEN user ELSE d[k]]
\* Mutant: the delete removes nothing.
MapDeleteNothing(d, id) == d
MapDelete(d, id) == [k \in DOMAIN d \ {id} |-> d[k]]
\* Reading a key the map lacks gives the zero value.
MapRead(d, id) == IF Has(d, id) THEN d[id] ELSE ZeroUser

\* application.FindByID: a pointer to a copy of the record, or nil.
FindByID(d, id) == [found |-> Has(d, id), user |-> MapRead(d, id)]

\* Every order in which ranging over the map may visit its keys.
Orders(S) ==
    {s \in [1 .. Cardinality(S) -> S] : \A i, j \in 1 .. Cardinality(S) : s[i] = s[j] => i = j}

---------------------------------------------------------------------------
(* State *)

NoLoc == [req |-> NoRequest, id |-> <<>>, user |-> ZeroUser]

InsertPcs == {"insert_loop", "insert_store", "insert_return"}
WritePcs == {"insert_store", "update_store", "delete_remove"}

\* make(map[api.ID]api.User)
EmptyMap == [k \in {} |-> ZeroUser]

Init ==
    /\ data = EmptyMap
    /\ pc = [p \in Procs |-> "idle"]
    /\ loc = [p \in Procs |-> NoLoc]
    /\ last = NoResponse
    /\ issued = {}
    /\ expect = [k \in {} |-> [user |-> ZeroUser, by |-> ""]]
    /\ crashed = FALSE

\* Goroutine p stands at label, no response is being written out and the process runs.
At(p, label) == pc[p] = label /\ last = NoResponse /\ ~crashed

\* A handler returns: its response is written and the goroutine is free again.
Return(p, req, resp) ==
    /\ pc' = [pc EXCEPT ![p] = "idle"]
    /\ loc' = [loc EXCEPT ![p] = NoLoc]
    /\ last' = Responded(p, req, resp)

\* A handler moves on to its next map access.
Goto(p, label, l) ==
    /\ pc' = [pc EXCEPT ![p] = label]
    /\ loc' = [loc EXCEPT ![p] = l]
    /\ last' = NoResponse

\* The history kept in expect: Insert's return notes the user it was given
\* and a PUT's 204 the user it sent; a call of Update or Delete on the id
\* forgets the entry.
Forget(e, id) == [k \in DOMAIN e \ {id} |-> e[k]]
Note(e, id, user, by) ==
    [k \in DOMAIN e \cup {id} |-> IF k = id THEN [user |-> user, by |-> by] ELSE e[k]]

---------------------------------------------------------------------------
(* POST /api/users: CreateUserHandler and application.Insert *)

\* Mutant: the loop never draws again.
CollidesNever(d, id) == FALSE
\* Mutant: the loop test is inverted into one that always draws again.
CollidesAlways(d, id) == TRUE
\* The test of Insert's loop: the drawn identifier is already a key.
Collides(d, id) == Has(d, id)

CreateUserHandler(p, body) ==
    LET req == Request("POST", "/users", <<>>, body) IN
    /\ At(p, "idle")
    /\ IF ~DecodeOK(body)
       THEN Return(p, req, sendJSON(Response(MsgBadBody, NilData), 400))
       ELSE Goto(p, "insert_loop", [req |-> req, id |-> <<>>, user |-> Decode(body)])
    /\ UNCHANGED <<data, issued, expect, crashed>>

\* One draw of uuid.New() and the look-up that decides whether to draw again.
InsertGenerate(p, id) ==
    /\ At(p, "insert_loop")
    /\ IF Collides(data, id)
       THEN Goto(p, "insert_loop", [loc[p] EXCEPT !.id = id])
       ELSE Goto(p, "insert_store", [loc[p] EXCEPT !.id = id])
    /\ UNCHANGED <<data, issued, expect, crashed>>

\* a.data[id] = user
InsertStore(p) ==
    /\ At(p, "insert_store")
    /\ data' = MapAssign(data, loc[p].id, loc[p].user)
    /\ Goto(p, "insert_return", loc[p])
    /\ UNCHANGED <<issued, expect, crashed>>

\* return a.data[id], id.String(); the handler answers 201 with both.
InsertReturn(p) ==
    LET id == loc[p].id
        user == MapRead(data, id)
    IN
    /\ At(p, "insert_return")
    /\ Return(p, loc[p].req,
              sendJSON(Response("", ObjectData(UserResponse(String(id), user))), 201))
    /\ issued' = issued \cup {id}
    /\ expect' = Note(expect, id, loc[p].user, "insert")
    /\ UNCHANGED <<data, crashed>>

---------------------------------------------------------------------------
(* GET /api/users: FindAllUsersHandler *)

NullData == [shape |-> "null", items |-> <<>>]

\* The loop over FindAll(): a nil slice until the first append.
Collect(d, order) ==
    IF Len(order) = 0 THEN NullData
    ELSE ArrayData([i \in 1 .. Len(order) |-> UserResponse(String(order[i]), d[order[i]])])

FindAllUsersHandler(p) ==
    /\ At(p, "idle")
    /\ \E order \in Orders(DOMAIN data) :
         LET response == Collect(data, order) IN
         Return(p, Request("GET", "/users", <<>>, NoBody),
                IF response = NullData
                THEN sendJSON(Response("", ArrayData(<<>>)), 200)
                ELSE sendJSON(Response("", response), 200))
    /\ UNCHANGED <<data, issued, expect, crashed>>

---------------------------------------------------------------------------
(* GET /api/users/{id}: FindByIDUserHandler *)

\* The id the 200 response carries.
FoundID(rawID, id) == rawID

FindByIDUserHandler(p, rawID) ==
    LET req == Request("GET", "/users/{id}", rawID, NoBody)
        id == Parse(rawID)
        user == FindByID(data, id)
    IN
    /\ At(p, "idle")
    /\ IF id = ParseError
       THEN Return(p, req, httpError(MsgBadID, 400))
       ELSE IF ~user.found
       THEN Return(p, req, sendJSON(Response(MsgNotFound, NilData), 404))
       ELSE Return(p, req,
                   sendJSON(Response("", ObjectData(UserResponse(FoundID(rawID, id), user.user))), 200))
    /\ UNCHANGED <<data, issued, expect, crashed>>

---------------------------------------------------------------------------
(* PUT /api/users/{id}: UpdateUserHandler and application.Update *)

\* What the handler answers before it reaches the store, "" when it goes on:
\* the body is decoded first, then the id parsed, then the record looked up.
UpdateReject(d, rawID, body) ==
    IF ~DecodeOK(body) THEN "body"
    ELSE IF Parse(rawID) = ParseError THEN "id"
    ELSE IF ~FindByID(d, Parse(rawID)).found THEN "absent"
    ELSE ""

\* Mutant: a malformed id is answered through sendJSON like the other failures.
RejectResponseJSON(why) ==
    CASE why = "body" -> sendJSON(Response(MsgBadBody, NilData), 400)
      [] why = "id" -> sendJSON(Response(MsgBadID, NilData), 400)
      [] OTHER -> sendJSON(Response(MsgNotFound, NilData), 404)

RejectResponse(why) ==
    CASE why = "body" -> sendJSON(Response(MsgBadBody, NilData), 400)
      [] why = "id" -> httpError(MsgBadID, 400)
      [] OTHER -> sendJSON(Response(MsgNotFound, NilData), 404)

UpdateUserHandler(p, rawID, body) ==
    LET req == Request("PUT", "/users/{id}", rawID, body)
        why == UpdateReject(data, rawID, body)
    IN
    /\ At(p, "idle")
    /\ IF why # ""
       THEN Return(p, req, RejectResponse(why))
       ELSE Goto(p, "update_check", [req |-> req, id |-> Parse(rawID), user |-> Decode(body)])
    /\ UNCHANGED <<data, issued, expect, crashed>>

\* Mutant: Update writes without looking the id up.
UpdateGuardAlways(d, id) == TRUE
\* The test that opens Update: the id is a key.
UpdateGuard(d, id) == Has(d, id)

\* Update's look-up; with the id absent Update returns and the handler answers 204.
UpdateCheck(p) ==
    /\ At(p, "update_check")
    /\ IF UpdateGuard(data, loc[p].id)
       THEN /\ Goto(p, "update_store", loc[p])
            /\ expect' = Forget(expect, loc[p].id)
       ELSE /\ Return(p, loc[p].req, sendJSON(Response("", NilData), 204))
            /\ expect' = Note(expect, loc[p].id, loc[p].user, "put")
    /\ UNCHANGED <<data, issued, crashed>>

\* Mutant: the 204 is sent but the record is not replaced.
UpdateStoreLost(p) ==
    /\ At(p, "update_store")
    /\ Return(p, loc[p].req, sendJSON(Response("", NilData), 204))
    /\ expect' = Note(expect, loc[p].id, loc[p].user, "put")
    /\ UNCHANGED <<data, issued, crashed>>

\* a.data[id] = user, and the handler's 204.
UpdateStore(p) ==
    /\ At(p, "update_store")
    /\ data' = MapAssign(data, loc[p].id, loc[p].user)
    /\ Return(p, loc[p].req, sendJSON(Response("", NilData), 204))
    /\ expect' = Note(expect, loc[p].id, loc[p].user, "put")
    /\ UNCHANGED <<issued, crashed>>

---------------------------------------------------------------------------
(* DELETE /api/users/{id}: DeleteUserHandler and application.Delete *)

DeleteReject(d, rawID) ==
    IF Parse(rawID) = ParseError THEN "id"
    ELSE IF ~FindByID(d, Parse(rawID)).found THEN "absent"
    ELSE ""

DeleteUserHandler(p, rawID) ==
    LET req == Request("DELETE", "/users/{id}", rawID, NoBody)
        why == DeleteReject(data, rawID)
    IN
    /\ At(p, "idle")
    /\ IF why # ""
       THEN Return(p, req, RejectResponse(why))
       ELSE Goto(p, "delete_check", [req |-> req, id |-> Parse(rawID), user |-> ZeroUser])
    /\ UNCHANGED <<data, issued, expect, crashed>>

\* Delete's look-up; with the id absent Delete returns and the handler answers 204.
DeleteCheck(p) ==
    /\ At(p, "delete_check")
    /\ IF Has(data, loc[p].id)
       THEN Goto(p, "delete_remove", loc[p])
       ELSE Return(p, loc[p].req, sendJSON(Response("", NilData), 204))
    /\ expect' = Forget(expect, loc[p].id)
    /\ UNCHANGED <<data, issued, crashed>>

\* delete(a.data, id), and the handler's 204.
DeleteRemove(p) ==
    /\ At(p, "delete_remove")
    /\ data' = MapDelete(data, loc[p].id)
    /\ Return(p, loc[p].req, sendJSON(Response("", NilData), 204))
    /\ expect' = Forget(expect, loc[p].id)
    /\ UNCHANGED <<issued, crashed>>

---------------------------------------------------------------------------
(* The runtime *)

\* A map write that overlaps another goroutine's map access is a data race; the
\* runtime may detect it and stop the process ("concurrent map writes").
RuntimeFatal(p) ==
    /\ pc[p] \in WritePcs
    /\ last = NoResponse
    /\ ~crashed
    /\ \E q \in Procs \ {p} : pc[q] # "idle"
    /\ crashed' = TRUE
    /\ last' = NoResponse
    /\ UNCHANGED <<data, pc, loc, issued, expect>>

\* The model refuses a create request once MaxStore records are held or on the way.
Room(body) ==
    DecodeOK(body) =>
        Cardinality(DOMAIN data) + Cardinality({q \in Procs : pc[q] \in InsertPcs}) < MaxStore

\* The server has written the response out; the next step of any request follows.
Served ==
    /\ last # NoResponse
    /\ last' = NoResponse
    /\ UNCHANGED <<data, pc, loc, issued, expect, crashed>>

\* The requests sent while goroutines run together: every canonical id, one
\* upper-case spelling and one malformed segment; one full body and one that
\* does not decode.
ConcRawIDs == {String(id) : id \in IDs} \cup {<<"A", "-", "B">>, <<"g", "-", "a">>}
ConcBodies == {NoBody, FullBody(Ada)}

\* Requests served by goroutines that run together.
Next ==
    \/ Served
    \/ \E p \in Procs :
          \/ \E body \in ConcBodies : Room(body) /\ CreateUserHandler(p, body)
          \/ \E id \in IDs : InsertGenerate(p, id)
          \/ InsertStore(p)
          \/ InsertReturn(p)
          \/ FindAllUsersHandler(p)
          \/ \E rawID \in ConcRawIDs : FindByIDUserHandler(p, rawID)
          \/ \E rawID \in ConcRawIDs, body \in ConcBodies : UpdateUserHandler(p, rawID, body)
          \/ UpdateCheck(p)
          \/ UpdateStore(p)
          \/ \E rawID \in ConcRawIDs : DeleteUserHandler(p, rawID)
          \/ DeleteCheck(p)
          \/ DeleteRemove(p)
          \/ RuntimeFatal(p)

Spec == Init /\ [][Next]_vars

\* Requests served one at a time: one goroutine takes up a request only after
\* it has answered the one before.
Serial == "r1"

SeqNext ==
    \/ Served
    \/ \E body \in Bodies : Room(body) /\ CreateUserHandler(Serial, body)
    \/ \E id \in IDs : InsertGenerate(Serial, id)
    \/ InsertStore(Serial)
    \/ InsertReturn(Serial)
    \/ FindAllUsersHandler(Serial)
    \/ \E rawID \in RawIDs : FindByIDUserHandler(Serial, rawID)
    \/ \E rawID \in RawIDs, body \in Bodies : UpdateUserHandler(Serial, rawID, body)
    \/ UpdateCheck(Serial)
    \/ UpdateStore(Serial)
    \/ \E rawID \in RawIDs : DeleteUserHandler(Serial, rawID)
    \/ DeleteCheck(Serial)
    \/ DeleteRemove(Serial)

SpecSeq == Init /\ [][SeqNext]_vars

\* Requests served one at a time by goroutines that keep running, with draws of
\* uuid.New() that do not avoid the free identifiers for ever.
SpecSeqFair ==
    /\ SpecSeq
    /\ WF_vars(\E id \in IDs : ~Collides(data, id) /\ InsertGenerate(Serial, id))
    /\ WF_vars(InsertStore(Serial))
    /\ WF_vars(InsertReturn(Serial))

---------------------------------------------------------------------------
(* Reading a step *)

\* Goroutine p takes up a request in this step.
Starts(p) == pc[p] = "idle" /\ last = NoResponse /\ (pc'[p] # "idle" \/ last'.proc = p)

\* The request p takes up in this step.
StartedRequest(p) == IF pc'[p] = "idle" THEN last'.req ELSE loc'[p].req

\* Goroutine p's handler writes its response in this step.
Answers(p) == last = NoResponse /\ last'.proc = p

IsPlainBadID(resp) ==
    /\ resp.status = 400
    /\ resp.ctype = "text/plain"
    /\ resp.body = "text"
    /\ resp.text = "UUID not valid"

IsErrorEnvelope(resp, status, msg) ==
    /\ resp.status = status
    /\ resp.ctype = "application/json"
    /\ resp.body = "json"
    /\ resp.json.keys = {"error"}
    /\ resp.json.error = msg

IsNoContent(resp) == resp.status = 204 /\ resp.body = "none"

SameFields(ur, user) ==
    /\ ur.first_name = user.first_name
    /\ ur.last_name = user.last_name
    /\ ur.biography = user.biography

\* The record the store holds under every key but id is the same before and after.
OthersKept(id) ==
    /\ DOMAIN data' \ {id} = DOMAIN data \ {id}
    /\ \A k \in DOMAIN data \ {id} : data'[k] = data[k]

---------------------------------------------------------------------------
(* C1 *)

\* C1: once Insert(u) has returned id, FindByID(id) returns a record equal to u
\* in every state until the next Update(id, _) or Delete(id), whatever is done
\* to other identifiers meanwhile (requests served one at a time).
InsertedRecordStaysFound ==
    \A id \in DOMAIN expect :
        expect[id].by = "insert" =>
            FindByID(data, id) = [found |-> TRUE, user |-> expect[id].user]

\* An inserted record is still pinned right after a PUT or DELETE on another id.
InsertedSurvivesOtherOps ==
    \E id \in DOMAIN expect :
        /\ expect[id].by = "insert"
        /\ expect[id].user # ZeroUser
        /\ last.req.method \in {"PUT", "DELETE"}
        /\ last.resp.status = 204
        /\ Parse(last.req.raw) # id

---------------------------------------------------------------------------
(* C2 *)

\* C2: every Insert writes under an identifier that is not a key of the store at
\* that moment, so the store grows by exactly one record, also when create
\* requests run concurrently.
InsertNeverOverwrites ==
    [][\A p \in Procs :
          (pc[p] = "insert_store" /\ pc'[p] = "insert_return") =>
              /\ ~Has(data, loc[p].id)
              /\ Cardinality(DOMAIN data') = Cardinality(DOMAIN data) + 1]_vars

---------------------------------------------------------------------------
(* C3 *)

\* C3 as stated: no Insert returns an identifier an earlier Insert returned, even
\* one whose record has been deleted since.
NeverReissued ==
    [][\A p \in Procs :
          (pc[p] = "insert_return" /\ pc'[p] = "idle") => loc[p].id \notin issued]_vars

\* C3 amended: with requests served one at a time, no Insert stores under (and
\* returns) an identifier that is the key of a live record; an identifier whose
\* record has been deleted may be returned again.
InsertAvoidsLiveKeys ==
    [][\A p \in Procs :
          (pc[p] = "insert_loop" /\ pc'[p] = "insert_store") =>
              /\ ~Has(data, loc'[p].id)
              /\ (loc'[p].id \in issued => loc'[p].id \notin DOMAIN expect)]_vars

\* Insert is about to return an identifier it has returned before.
ReissuedAfterDelete ==
    \E p \in Procs : pc[p] = "insert_return" /\ loc[p].id \in issued

---------------------------------------------------------------------------
(* C4 *)

\* C4: for a well-formed id that is not a key and a decodable body, Update(id,
\* user) returns leaving the store unchanged, and PUT /api/users/{id} answers 404
\* with the JSON error envelope.
UpdateAbsentIsNoOp ==
    [][\A p \in Procs :
          /\ (pc[p] = "update_check" /\ ~Has(data, loc[p].id) /\ pc'[p] # "update_check") =>
                 (pc'[p] = "idle" /\ data' = data)
          /\ (/\ Starts(p)
              /\ StartedRequest(p).method = "PUT"
              /\ DecodeOK(StartedRequest(p).body)
              /\ Parse(StartedRequest(p).raw) # ParseError
              /\ ~Has(data, Parse(StartedRequest(p).raw))) =>
                 /\ pc'[p] = "idle"
                 /\ data' = data
                 /\ IsErrorEnvelope(last'.resp, 404,
                                    "The user with the specified ID does not exist.")]_vars

\* A PUT on an absent id has just been answered 404 beside a stored record.
PutAbsentAnswered ==
    /\ last.req.method = "PUT"
    /\ last.resp.status = 404
    /\ DecodeOK(last.req.body)
    /\ DOMAIN data # {}

---------------------------------------------------------------------------
(* C5 *)

\* C5: whether or not id was a key, when Delete(id) returns FindByID(id) gives
\* nil and every other key keeps its record.
DeleteThenAbsent ==
    [][\A p \in Procs :
          (/\ pc[p] \in {"delete_check", "delete_remove"}
           /\ pc'[p] = "idle") =>
              /\ ~FindByID(data', loc[p].id).found
              /\ OthersKept(loc[p].id)]_vars

\* A DELETE has just been answered 204 and another record is still stored.
DeletedBesideOthers ==
    /\ last.req.method = "DELETE"
    /\ last.resp.status = 204
    /\ ~Has(data, Parse(last.req.raw))
    /\ DOMAIN data # {}

---------------------------------------------------------------------------
(* C6 *)

\* C6: a PUT with a decodable body b on an id that is a key answers 204, leaves
\* the other records alone, and a GET of that id that follows with no PUT or
\* DELETE of it between answers 200 with the three fields of b (requests served
\* one at a time).
PutThenGetReflects ==
    [][\A p \in Procs :
          /\ (/\ Answers(p)
              /\ last'.req.method = "PUT"
              /\ DecodeOK(last'.req.body)
              /\ Has(data, Parse(last'.req.raw))) =>
                 /\ IsNoContent(last'.resp)
                 /\ Has(data', Parse(last'.req.raw))
                 /\ data'[Parse(last'.req.raw)] = Decode(last'.req.body)
                 /\ OthersKept(Parse(last'.req.raw))
          /\ (/\ Answers(p)
              /\ last'.req.method = "GET"
              /\ last'.req.route = "/users/{id}"
              /\ Parse(last'.req.raw) \in DOMAIN expect
              /\ expect[Parse(last'.req.raw)].by = "put") =>
                 /\ last'.resp.status = 200
                 /\ last'.resp.body = "json"
                 /\ last'.resp.json.keys = {"data"}
                 /\ last'.resp.json.data.shape = "object"
                 /\ SameFields(last'.resp.json.data.items[1],
                               expect[Parse(last'.req.raw)].user)]_vars

\* A GET has just answered 200 for a record a PUT replaced with new fields.
GetAfterPut ==
    /\ last.req.method = "GET"
    /\ last.req.route = "/users/{id}"
    /\ last.resp.status = 200
    /\ Parse(last.req.raw) \in DOMAIN expect
    /\ expect[Parse(last.req.raw)].by = "put"
    /\ expect[Parse(last.req.raw)].user = Grace
    /\ Cardinality(DOMAIN data) > 1

---------------------------------------------------------------------------
(* C7 *)

---------------------------------------------------------------------------
(* C8 *)

\* C8: every 201 and 200 response renders each id it carries in the canonical
\* string form of the stored identifier, whatever accepted spelling the path
\* segment used.
IdsRenderedCanonical ==
    [][\A p \in Procs :
          (Answers(p) /\ last'.resp.status \in {200, 201}) =>
              \A i \in DOMAIN last'.resp.json.data.items :
                  /\ \E k \in DOMAIN data' : last'.resp.json.data.items[i].id = String(k)
                  /\ last'.req.route = "/users/{id}" =>
                         last'.resp.json.data.items[i].id = String(Parse(last'.req.raw))]_vars

---------------------------------------------------------------------------
(* C9 *)

\* C9: every call of Insert leaves its loop, stores the record and returns it
\* with its identifier: a create request that has entered Insert with user u is
\* eventually answered 201 with the fields of u and an id under which the store
\* holds u (requests served one at a time, fair draws).
InsertAlwaysSucceeds ==
    \A u \in Users :
        (pc[Serial] = "insert_loop" /\ loc[Serial].user = u) ~>
            (/\ last.proc = Serial
             /\ last.req.method = "POST"
             /\ last.resp.status = 201
             /\ last.resp.json.data.shape = "object"
             /\ SameFields(last.resp.json.data.items[1], u)
             /\ Has(data, Parse(last.resp.json.data.items[1].id))
             /\ data[Parse(last.resp.json.data.items[1].id)] = u)

\* Insert's loop holds an identifier that collided and must draw again.
InsertMustRetry ==
    \E p \in Procs : pc[p] = "insert_loop" /\ Has(data, loc[p].id)

---------------------------------------------------------------------------
(* C10 *)

\* C10: the key set of the store grows only through Insert; an Update never adds
\* a key, also when a DELETE of the same id runs between the PUT handler's
\* existence check and its write.
KeysGrowOnlyThroughInsert ==
    [][\A id \in DOMAIN data' \ DOMAIN data :
          \E p \in Procs :
              /\ At(p, "insert_store")
              /\ pc'[p] = "insert_return"
              /\ loc[p].id = id]_vars

=============================================================================
